---- MODULE Spec2Model ----
(***************************************************************************)
(* TINY compiler front end: Scanner.scan (src/scanner.py) and              *)
(* Parser.parse (src/parser.py) as state machines.                         *)
(*                                                                         *)
(* A source text is a sequence of one-character strings, a token is the    *)
(* Python pair (token_value, token_type) written as a record, a Python     *)
(* list that is shared by reference (Scanner.tokens) lives in `heap`.      *)
(* Each call (thread of control) has its own entry in scan_call /          *)
(* parse_call; the fields of the Scanner and Parser instances are shared.  *)
(***************************************************************************)
EXTENDS FiniteSets, Integers, Sequences, TLC

VARIABLES
    scanner,      \* the Scanner instance: [tokens |-> reference into heap]
    heap,         \* the Python list objects created by the scanner, by reference
    scan_call,    \* per call of Scanner.scan: [pc, code, position, ret, exc]
    parser,       \* the Parser instance: tokens, current_token_index, current_token, syntax_tree
    parse_call,   \* per call of Parser.parse: [pc, arg, stack, ret]
    file,         \* the text of the token file, None before it is written
    visualizer    \* the SyntaxTreeVisualizer instance: graph, node_count, node_labels

vars == <<scanner, heap, scan_call, parser, parse_call, file, visualizer>>
svars == <<scanner, heap, scan_call>>
pvars == <<parser, parse_call>>
ovars == <<file, visualizer>>

\* Python's None, where a token or a syntax tree is expected
None == [none |-> TRUE]

\* a Python str built by formatting: the pieces of the f-string in order
Str(pieces) == [str |-> pieces]

\* no list reference (heap references start at 1)
NoRef == 0

\* A token tuple (token_value, token_type)
Token(token_value, token_type) ==
    [token_value |-> token_value, token_type |-> token_type]

(***************************************************************************)
(* Characters                                                              *)
(***************************************************************************)
UpperCase == <<"A","B","C","D","E","F","G","H","I","J","K","L","M",
               "N","O","P","Q","R","S","T","U","V","W","X","Y","Z">>
LowerCase == <<"a","b","c","d","e","f","g","h","i","j","k","l","m",
               "n","o","p","q","r","s","t","u","v","w","x","y","z">>
Range(s) == {s[i] : i \in DOMAIN s}
Letters == Range(UpperCase) \cup Range(LowerCase)
Digits == {"0","1","2","3","4","5","6","7","8","9"}

\* str.isspace() on one character; of the characters Python counts as
\* whitespace the texts here use the ASCII ones
IsSpace(c) == c \in {" ", "\t", "\n", "\r", "\f"}

\* str.lower() on one character, then on a string
LowerChar(c) ==
    IF c \in Range(UpperCase)
    THEN LowerCase[CHOOSE i \in DOMAIN UpperCase : UpperCase[i] = c]
    ELSE c
Lower(value) == [i \in DOMAIN value |-> LowerChar(value[i])]

\* TOKEN_TYPES: the dictionary of reserved words and special symbols
TOKEN_TYPES ==
    (<<"i","f">> :> "IF") @@
    (<<"t","h","e","n">> :> "THEN") @@
    (<<"e","n","d">> :> "END") @@
    (<<"r","e","p","e","a","t">> :> "REPEAT") @@
    (<<"u","n","t","i","l">> :> "UNTIL") @@
    (<<"r","e","a","d">> :> "READ") @@
    (<<"w","r","i","t","e">> :> "WRITE") @@
    (<<";">> :> "SEMICOLON") @@
    (<<":","=">> :> "ASSIGN") @@
    (<<"<">> :> "LESSTHAN") @@
    (<<"=">> :> "EQUAL") @@
    (<<"+">> :> "PLUS") @@
    (<<"-">> :> "MINUS") @@
    (<<"*">> :> "MULT") @@
    (<<"/">> :> "DIV") @@
    (<<"(">> :> "OPENBRACKET") @@
    (<<")">> :> "CLOSEDBRACKET")

(***************************************************************************)
(* Scanner                                                                 *)
(***************************************************************************)
\* code[position] with Python's 0-based index
CharAt(code, position) == code[position + 1]

\* code[position:position+n]
Slice(code, position, n) ==
    [i \in 1..n |-> code[position + i]]

\* the end (exclusive, 0-based) of the longest run of characters of class
\* `cls` that starts at `position`: what a greedy `cls*` consumes
RECURSIVE RunEnd(_, _, _)
RunEnd(code, position, cls) ==
    IF position < Len(code) /\ CharAt(code, position) \in cls
    THEN RunEnd(code, position + 1, cls)
    ELSE position

\* the identifier pattern without the digits: [a-zA-Z][a-zA-Z]*
IdentifierMatchLettersOnly(code, position) ==
    Slice(code, position, RunEnd(code, position + 1, Letters) - position)

\* re.match(r'[a-zA-Z][a-zA-Z0-9]*', code[position:]): whether it matches,
\* and the matched text group(0)
HasIdentifierMatch(code, position) == CharAt(code, position) \in Letters

IdentifierMatch(code, position) ==
    Slice(code, position,
          RunEnd(code, position + 1, Letters \cup Digits) - position)

\* re.match(r'\d+', code[position:]): whether it matches, and the matched
\* text group(0)
HasNumberMatch(code, position) == CharAt(code, position) \in Digits

NumberMatch(code, position) ==
    Slice(code, position, RunEnd(code, position, Digits) - position)

\* the lookup of scanner.py:50-53 without .lower()
IdentifierTypeCaseSensitive(value) ==
    IF value \in DOMAIN TOKEN_TYPES
    THEN TOKEN_TYPES[value]
    ELSE "IDENTIFIER"

\* the kind of an identifier-pattern lexeme (scanner.py:50-53)
IdentifierType(value) ==
    IF Lower(value) \in DOMAIN TOKEN_TYPES
    THEN TOKEN_TYPES[Lower(value)]
    ELSE "IDENTIFIER"

\* the test for the assignment operator (scanner.py:67)
IsAssignAt(code, position) ==
    /\ position + 1 < Len(code)
    /\ Slice(code, position, 2) = <<":", "=">>

\* the test for the other special symbols (scanner.py:73)
IsSymbolAt(code, position) ==
    <<CharAt(code, position)>> \in DOMAIN TOKEN_TYPES

\* self.tokens.append(token): the list self.tokens refers to NOW
TokensAppend(token) ==
    heap' = [heap EXCEPT ![scanner.tokens] = Append(@, token)]

\* the message of scanner.py:79 with a 1-based position
UnrecognizedTokenOneBased(code, position) ==
    Str(<<"Unrecognized token at position ", position + 1, ": '",
          CharAt(code, position), "'">>)

\* the message of scanner.py:79
UnrecognizedToken(code, position) ==
    Str(<<"Unrecognized token at position ", position, ": '",
          CharAt(code, position), "'">>)

\* scan() entered without `self.tokens = []`
ScanEnterNoReset(t) ==
    /\ scan_call[t].pc = "call"
    /\ scan_call' = [scan_call EXCEPT ![t].pc = "loop", ![t].position = 0]
    /\ UNCHANGED <<scanner, heap, pvars, ovars>>

\* scanner.py:36-37: self.tokens = [] ; position = 0
ScanEnter(t) ==
    /\ scan_call[t].pc = "call"
    /\ heap' = Append(heap, <<>>)
    /\ scanner' = [scanner EXCEPT !.tokens = Len(heap) + 1]
    /\ scan_call' = [scan_call EXCEPT ![t].pc = "loop", ![t].position = 0]
    /\ UNCHANGED <<pvars, ovars>>

\* a loop iteration is entered: scanner.py:39
InLoop(t) ==
    /\ scan_call[t].pc = "loop"
    /\ scan_call[t].position < Len(scan_call[t].code)

\* scanner.py:41-43
ScanSpace(t) ==
    LET code == scan_call[t].code
        position == scan_call[t].position
    IN  /\ InLoop(t)
        /\ IsSpace(CharAt(code, position))
        /\ scan_call' = [scan_call EXCEPT ![t].position = position + 1]
        /\ UNCHANGED <<scanner, heap, pvars, ovars>>

\* scanner.py:46-56
ScanIdentifier(t) ==
    LET code == scan_call[t].code
        position == scan_call[t].position
        value == IdentifierMatch(code, position)
    IN  /\ InLoop(t)
        /\ ~IsSpace(CharAt(code, position))
        /\ HasIdentifierMatch(code, position)
        /\ TokensAppend(Token(value, IdentifierType(value)))
        /\ scan_call' = [scan_call EXCEPT ![t].position = position + Len(value)]
        /\ UNCHANGED <<scanner, pvars, ovars>>

\* scanner.py:59-64
ScanNumber(t) ==
    LET code == scan_call[t].code
        position == scan_call[t].position
        value == NumberMatch(code, position)
    IN  /\ InLoop(t)
        /\ ~IsSpace(CharAt(code, position))
        /\ ~HasIdentifierMatch(code, position)
        /\ HasNumberMatch(code, position)
        /\ TokensAppend(Token(value, "NUMBER"))
        /\ scan_call' = [scan_call EXCEPT ![t].position = position + Len(value)]
        /\ UNCHANGED <<scanner, pvars, ovars>>

\* none of whitespace, identifier, number applies at position
NoWordAt(code, position) ==
    /\ ~IsSpace(CharAt(code, position))
    /\ ~HasIdentifierMatch(code, position)
    /\ ~HasNumberMatch(code, position)

\* scanner.py:67-70
ScanAssign(t) ==
    LET code == scan_call[t].code
        position == scan_call[t].position
    IN  /\ InLoop(t)
        /\ NoWordAt(code, position)
        /\ IsAssignAt(code, position)
        /\ TokensAppend(Token(<<":", "=">>, "ASSIGN"))
        /\ scan_call' = [scan_call EXCEPT ![t].position = position + 2]
        /\ UNCHANGED <<scanner, pvars, ovars>>

\* scanner.py:73-76
ScanSymbol(t) ==
    LET code == scan_call[t].code
        position == scan_call[t].position
    IN  /\ InLoop(t)
        /\ NoWordAt(code, position)
        /\ ~IsAssignAt(code, position)
        /\ IsSymbolAt(code, position)
        /\ TokensAppend(Token(<<CharAt(code, position)>>,
                              TOKEN_TYPES[<<CharAt(code, position)>>]))
        /\ scan_call' = [scan_call EXCEPT ![t].position = position + 1]
        /\ UNCHANGED <<scanner, pvars, ovars>>

\* scanner.py:79: the exception leaves scan; nothing is returned
ScanRaise(t) ==
    LET code == scan_call[t].code
        position == scan_call[t].position
    IN  /\ InLoop(t)
        /\ NoWordAt(code, position)
        /\ ~IsAssignAt(code, position)
        /\ ~IsSymbolAt(code, position)
        /\ scan_call' = [scan_call EXCEPT
                            ![t].pc = "raised",
                            ![t].exc = UnrecognizedToken(code, position)]
        /\ UNCHANGED <<scanner, heap, pvars, ovars>>

\* scanner.py:39 (loop exit) and 81: return self.tokens
ScanReturn(t) ==
    /\ scan_call[t].pc = "loop"
    /\ ~(scan_call[t].position < Len(scan_call[t].code))
    /\ scan_call' = [scan_call EXCEPT ![t].pc = "returned",
                                      ![t].ret = scanner.tokens]
    /\ UNCHANGED <<scanner, heap, pvars, ovars>>

ScanStep(t) ==
    \/ ScanEnter(t)
    \/ ScanSpace(t)
    \/ ScanIdentifier(t)
    \/ ScanNumber(t)
    \/ ScanAssign(t)
    \/ ScanSymbol(t)
    \/ ScanRaise(t)
    \/ ScanReturn(t)

(***************************************************************************)
(* Parser: the call stack of one parse call                                *)
(*                                                                         *)
(* A frame is one activation of a method of Parser: fn is the method, pc   *)
(* the line of parser.py it executes next, ret the value returned by the   *)
(* call it made last, the other fields its local variables.  The frame of  *)
(* a caller waits below the frame of its callee.                           *)
(***************************************************************************)
NoResult == <<>>

Stack(t) == parse_call[t].stack
Top(t) == Stack(t)[Len(Stack(t))]

AtTop(t, fn, pc) ==
    /\ parse_call[t].pc = "running"
    /\ Len(Stack(t)) > 0
    /\ Top(t).fn = fn
    /\ Top(t).pc = pc

\* the activation record a method starts with
NewFrame(fn) ==
    CASE fn = "parse" -> [fn |-> fn, pc |-> "41", ret |-> None]
      [] fn = "program" -> [fn |-> fn, pc |-> "76", ret |-> None]
      [] fn = "stmt_sequence" ->
            [fn |-> fn, pc |-> "82", ret |-> None, statements |-> <<>>]
      [] fn = "statement" -> [fn |-> fn, pc |-> "97", ret |-> None]
      [] fn = "if_stmt" ->
            [fn |-> fn, pc |-> "119", ret |-> None, condition |-> None,
             body |-> None]
      [] fn = "repeat_stmt" ->
            [fn |-> fn, pc |-> "131", ret |-> None, body |-> None]
      [] fn = "assign_stmt" ->
            [fn |-> fn, pc |-> "142", ret |-> None, identifier |-> None]
      [] fn = "read_stmt" -> [fn |-> fn, pc |-> "152", ret |-> None]
      [] fn = "write_stmt" -> [fn |-> fn, pc |-> "161", ret |-> None]
      [] fn = "exp" ->
            [fn |-> fn, pc |-> "170", ret |-> None, left |-> None, op |-> None]
      [] fn = "simple_exp" ->
            [fn |-> fn, pc |-> "188", ret |-> None, left |-> None, op |-> None]
      [] fn = "term" ->
            [fn |-> fn, pc |-> "206", ret |-> None, left |-> None, op |-> None]
      [] fn = "factor" ->
            [fn |-> fn, pc |-> "224", ret |-> None, exp_value |-> None]

\* the activation record of self.match(expected_type)
MatchFrame(expected_type) ==
    [fn |-> "match", pc |-> "57", ret |-> None, expected_type |-> expected_type]

\* the running method moves on to the frame `self` and calls `callee`
Call(t, self, callee) ==
    parse_call' = [parse_call EXCEPT
        ![t].stack = SubSeq(@, 1, Len(@) - 1) \o <<self, callee>>]

\* the running method returns `value` to its caller
Return(t, value) ==
    parse_call' = [parse_call EXCEPT
        ![t].stack = SubSeq(@, 1, Len(@) - 2)
                        \o <<[@[Len(@) - 1] EXCEPT !.ret = value]>>]

\* an except clause that hands back the tree built so far with the failure
RaiseWithTree(t, message) ==
    parse_call' = [parse_call EXCEPT
        ![t].stack = <<>>,
        ![t].pc = "returned",
        ![t].ret = <<FALSE, parser.syntax_tree>>]

\* raise Exception(message): no method between the raise and parse catches,
\* so the stack unwinds to parser.py:48-49, return False, str(e)
Raise(t, message) ==
    parse_call' = [parse_call EXCEPT
        ![t].stack = <<>>,
        ![t].pc = "returned",
        ![t].ret = <<FALSE, message>>]

\* the messages of the exceptions
EndOfInput == Str(<<"Unexpected end of input">>)
ExpectedFound(expected_type, token_type) ==
    Str(<<"Expected ", expected_type, ", but found ", token_type>>)
UnexpectedToken(token) ==
    Str(<<"Unexpected token: ", token.token_value, ", ", token.token_type>>)
\* f"Unexpected token: {self.current_token}" prints the whole tuple
UnexpectedTrailing(token) == Str(<<"Unexpected token: ", token>>)
\* the TypeError of unpacking None at parser.py:60
CannotUnpack == Str(<<"cannot unpack non-iterable NoneType object">>)

\* self.tokens[i] reading one token too far
TokenAtNext(tokens, i) == IF i + 1 < Len(tokens) THEN tokens[i + 2] ELSE None

\* self.tokens[i] with Python's 0-based index, None past the end
\* (parser.py:37, 68)
TokenAt(tokens, i) == IF i < Len(tokens) THEN tokens[i + 1] ELSE None

\* parser.py:35-37
ParseEnter(t) ==
    /\ parse_call[t].pc = "call"
    /\ parser' = [parser EXCEPT
            !.tokens = parse_call[t].arg,
            !.current_token_index = 0,
            !.current_token = TokenAt(parse_call[t].arg, 0)]
    /\ parse_call' = [parse_call EXCEPT
            ![t].pc = "running",
            ![t].stack = <<NewFrame("parse")>>]
    /\ UNCHANGED <<svars, ovars>>

\* the check of parser.py:44 with the last token left out
UnconsumedButLast(p) == p.current_token_index + 1 < Len(p.tokens)

\* parser.py:44: tokens are left over
Unconsumed(p) == p.current_token_index < Len(p.tokens)

\* parser.py:41-49, the body of the try
Parse(t) ==
    /\ \/ /\ AtTop(t, "parse", "41")
          /\ Call(t, [Top(t) EXCEPT !.pc = "41="], NewFrame("program"))
          /\ UNCHANGED parser
       \/ /\ AtTop(t, "parse", "41=")
          /\ parser' = [parser EXCEPT !.syntax_tree = Top(t).ret]
          /\ parse_call' = [parse_call EXCEPT ![t].stack = <<[Top(t) EXCEPT !.pc = "44"]>>]
       \/ /\ AtTop(t, "parse", "44")
          /\ IF Unconsumed(parser)
             THEN Raise(t, UnexpectedTrailing(parser.current_token))
             ELSE parse_call' = [parse_call EXCEPT ![t].stack = <<[Top(t) EXCEPT !.pc = "47"]>>]
          /\ UNCHANGED parser
       \/ /\ AtTop(t, "parse", "47")
          /\ parse_call' = [parse_call EXCEPT
                ![t].stack = <<>>,
                ![t].pc = "returned",
                ![t].ret = <<TRUE, parser.syntax_tree>>]
          /\ UNCHANGED parser
    /\ UNCHANGED <<svars, ovars>>

\* match() consuming the token before it compares the kinds
MatchConsumesFirst(t) ==
    /\ AtTop(t, "match", "57")
    /\ IF parser.current_token_index >= Len(parser.tokens)
       THEN Raise(t, EndOfInput) /\ UNCHANGED parser
       ELSE /\ parser' = [parser EXCEPT
                    !.current_token_index = @ + 1,
                    !.current_token =
                        TokenAt(parser.tokens, parser.current_token_index + 1)]
            /\ IF parser.current_token.token_type # Top(t).expected_type
               THEN Raise(t, ExpectedFound(Top(t).expected_type,
                                           parser.current_token.token_type))
               ELSE Return(t, parser.current_token)
    /\ UNCHANGED <<svars, ovars>>

\* parser.py:51-70
Match(t) ==
    /\ AtTop(t, "match", "57")
    /\ IF parser.current_token_index >= Len(parser.tokens)
       THEN Raise(t, EndOfInput) /\ UNCHANGED parser
       ELSE IF parser.current_token = None
       THEN Raise(t, CannotUnpack) /\ UNCHANGED parser
       ELSE IF parser.current_token.token_type # Top(t).expected_type
       THEN /\ Raise(t, ExpectedFound(Top(t).expected_type,
                                      parser.current_token.token_type))
            /\ UNCHANGED parser
       ELSE /\ parser' = [parser EXCEPT
                    !.current_token_index = @ + 1,
                    !.current_token =
                        TokenAt(parser.tokens, parser.current_token_index + 1)]
            /\ Return(t, parser.current_token)
    /\ UNCHANGED <<svars, ovars>>

\* parser.py:72-76
Program(t) ==
    /\ \/ /\ AtTop(t, "program", "76")
          /\ Call(t, [Top(t) EXCEPT !.pc = "76r"], NewFrame("stmt_sequence"))
       \/ /\ AtTop(t, "program", "76r")
          /\ Return(t, [type |-> "program", body |-> Top(t).ret])
    /\ UNCHANGED <<parser, svars, ovars>>

\* the truth value of `self.current_token and self.current_token[1] == kind`
HasType(token, token_type) ==
    token # None /\ token.token_type = token_type

\* parser.py:84, the loop condition
MoreStatements(token) == HasType(token, "SEMICOLON")

\* the condition of parser.py:86 without the test for END and UNTIL
StatementFollowsAnyToken(token) == token # None

\* parser.py:86, the condition under which another statement is parsed
\* after a semicolon
StatementFollows(token) ==
    token # None /\ token.token_type \notin {"END", "UNTIL"}

\* parser.py:78-91
\* statements = [self.statement()] and statements.append(self.statement())
\* both put the value the call returned at the end of the list
StmtSequence(t) ==
    /\ \/ /\ AtTop(t, "stmt_sequence", "82")
          /\ Call(t, [Top(t) EXCEPT !.pc = "84"], NewFrame("statement"))
       \/ /\ AtTop(t, "stmt_sequence", "84")
          /\ LET statements == Append(Top(t).statements, Top(t).ret)
             IN  IF MoreStatements(parser.current_token)
                 THEN Call(t, [Top(t) EXCEPT !.pc = "86",
                                             !.statements = statements],
                           MatchFrame("SEMICOLON"))
                 ELSE Return(t, [type |-> "stmt_sequence",
                                 statements |-> statements])
       \/ /\ AtTop(t, "stmt_sequence", "86")
          /\ IF StatementFollows(parser.current_token)
             THEN Call(t, [Top(t) EXCEPT !.pc = "84"], NewFrame("statement"))
             ELSE Return(t, [type |-> "stmt_sequence",
                             statements |-> Top(t).statements])
    /\ UNCHANGED <<parser, svars, ovars>>

\* the dispatch of parser.py:102-111 with WRITE sent to read_stmt
StatementForWriteAsRead(token_type) ==
    CASE token_type = "IF" -> "if_stmt"
      [] token_type = "REPEAT" -> "repeat_stmt"
      [] token_type = "READ" -> "read_stmt"
      [] token_type = "WRITE" -> "read_stmt"
      [] token_type = "IDENTIFIER" -> "assign_stmt"
      [] OTHER -> ""

\* the dispatch of statement() without the branch of parser.py:104
StatementForNoRepeat(token_type) ==
    CASE token_type = "IF" -> "if_stmt"
      [] token_type = "READ" -> "read_stmt"
      [] token_type = "WRITE" -> "write_stmt"
      [] token_type = "IDENTIFIER" -> "assign_stmt"
      [] OTHER -> ""

\* parser.py:102-111: the method statement() dispatches to, "" for none
StatementFor(token_type) ==
    CASE token_type = "IF" -> "if_stmt"
      [] token_type = "REPEAT" -> "repeat_stmt"
      [] token_type = "READ" -> "read_stmt"
      [] token_type = "WRITE" -> "write_stmt"
      [] token_type = "IDENTIFIER" -> "assign_stmt"
      [] OTHER -> ""

\* parser.py:93-113
Statement(t) ==
    /\ \/ /\ AtTop(t, "statement", "97")
          /\ IF parser.current_token = None
             THEN Raise(t, EndOfInput)
             ELSE IF StatementFor(parser.current_token.token_type) # ""
             THEN Call(t, [Top(t) EXCEPT !.pc = "103"],
                       NewFrame(StatementFor(parser.current_token.token_type)))
             ELSE Raise(t, UnexpectedToken(parser.current_token))
       \/ /\ AtTop(t, "statement", "103")
          /\ Return(t, Top(t).ret)
    /\ UNCHANGED <<parser, svars, ovars>>

\* parser.py:115-125
IfStmt(t) ==
    /\ \/ /\ AtTop(t, "if_stmt", "119")
          /\ Call(t, [Top(t) EXCEPT !.pc = "120"], MatchFrame("IF"))
       \/ /\ AtTop(t, "if_stmt", "120")
          /\ Call(t, [Top(t) EXCEPT !.pc = "121"], NewFrame("exp"))
       \/ /\ AtTop(t, "if_stmt", "121")
          /\ Call(t, [Top(t) EXCEPT !.pc = "122", !.condition = Top(t).ret],
                  MatchFrame("THEN"))
       \/ /\ AtTop(t, "if_stmt", "122")
          /\ Call(t, [Top(t) EXCEPT !.pc = "123"], NewFrame("stmt_sequence"))
       \/ /\ AtTop(t, "if_stmt", "123")
          /\ Call(t, [Top(t) EXCEPT !.pc = "125", !.body = Top(t).ret],
                  MatchFrame("END"))
       \/ /\ AtTop(t, "if_stmt", "125")
          /\ Return(t, [type |-> "if_stmt",
                        condition |-> Top(t).condition,
                        body |-> Top(t).body])
    /\ UNCHANGED <<parser, svars, ovars>>

\* parser.py:127-136
RepeatStmt(t) ==
    /\ \/ /\ AtTop(t, "repeat_stmt", "131")
          /\ Call(t, [Top(t) EXCEPT !.pc = "132"], MatchFrame("REPEAT"))
       \/ /\ AtTop(t, "repeat_stmt", "132")
          /\ Call(t, [Top(t) EXCEPT !.pc = "133"], NewFrame("stmt_sequence"))
       \/ /\ AtTop(t, "repeat_stmt", "133")
          /\ Call(t, [Top(t) EXCEPT !.pc = "134", !.body = Top(t).ret],
                  MatchFrame("UNTIL"))
       \/ /\ AtTop(t, "repeat_stmt", "134")
          /\ Call(t, [Top(t) EXCEPT !.pc = "136"], NewFrame("exp"))
       \/ /\ AtTop(t, "repeat_stmt", "136")
          /\ Return(t, [type |-> "repeat_stmt",
                        body |-> Top(t).body,
                        condition |-> Top(t).ret])
    /\ UNCHANGED <<parser, svars, ovars>>

\* parser.py:138-146
AssignStmt(t) ==
    /\ \/ /\ AtTop(t, "assign_stmt", "142")
          /\ Call(t, [Top(t) EXCEPT !.pc = "143"], MatchFrame("IDENTIFIER"))
       \/ /\ AtTop(t, "assign_stmt", "143")
          /\ Call(t, [Top(t) EXCEPT !.pc = "144", !.identifier = Top(t).ret],
                  MatchFrame("ASSIGN"))
       \/ /\ AtTop(t, "assign_stmt", "144")
          /\ Call(t, [Top(t) EXCEPT !.pc = "146"], NewFrame("exp"))
       \/ /\ AtTop(t, "assign_stmt", "146")
          /\ Return(t, [type |-> "assign_stmt",
                        identifier |-> Top(t).identifier,
                        value |-> Top(t).ret])
    /\ UNCHANGED <<parser, svars, ovars>>

\* parser.py:148-155
ReadStmt(t) ==
    /\ \/ /\ AtTop(t, "read_stmt", "152")
          /\ Call(t, [Top(t) EXCEPT !.pc = "153"], MatchFrame("READ"))
       \/ /\ AtTop(t, "read_stmt", "153")
          /\ Call(t, [Top(t) EXCEPT !.pc = "155"], MatchFrame("IDENTIFIER"))
       \/ /\ AtTop(t, "read_stmt", "155")
          /\ Return(t, [type |-> "read_stmt", identifier |-> Top(t).ret])
    /\ UNCHANGED <<parser, svars, ovars>>

\* parser.py:157-164
WriteStmt(t) ==
    /\ \/ /\ AtTop(t, "write_stmt", "161")
          /\ Call(t, [Top(t) EXCEPT !.pc = "162"], MatchFrame("WRITE"))
       \/ /\ AtTop(t, "write_stmt", "162")
          /\ Call(t, [Top(t) EXCEPT !.pc = "164"], NewFrame("exp"))
       \/ /\ AtTop(t, "write_stmt", "164")
          /\ Return(t, [type |-> "write_stmt", value |-> Top(t).ret])
    /\ UNCHANGED <<parser, svars, ovars>>

\* the truth value of `self.current_token and self.current_token[1] in kinds`
HasTypeIn(token, kinds) ==
    token # None /\ token.token_type \in kinds

\* parser.py:172, 190, 208: the operators each level consumes
ComparisonOps == {"LESSTHAN", "EQUAL"}
AddOps == {"PLUS", "MINUS"}
MulOps == {"MULT", "DIV"}

\* a binary node with the operands the wrong way round
BinaryNodeSwapped(type, left, op, right) ==
    [type |-> type, left |-> right, op |-> op, right |-> left]

\* a binary node of the syntax tree (parser.py:180, 198, 216)
BinaryNode(type, left, op, right) ==
    [type |-> type, left |-> left, op |-> op, right |-> right]

\* exp() with `while` in place of the `if` of parser.py:172
ExpLoops(t) ==
    /\ \/ /\ AtTop(t, "exp", "170")
          /\ Call(t, [Top(t) EXCEPT !.pc = "172"], NewFrame("simple_exp"))
       \/ /\ AtTop(t, "exp", "172")
          /\ IF HasTypeIn(parser.current_token, ComparisonOps)
             THEN Call(t, [Top(t) EXCEPT !.pc = "179",
                                         !.left = Top(t).ret,
                                         !.op = parser.current_token],
                       MatchFrame(parser.current_token.token_type))
             ELSE Return(t, Top(t).ret)
       \/ /\ AtTop(t, "exp", "179")
          /\ Call(t, [Top(t) EXCEPT !.pc = "180"], NewFrame("simple_exp"))
       \/ /\ AtTop(t, "exp", "180")
          /\ LET left == BinaryNode("exp", Top(t).left, Top(t).op, Top(t).ret)
             IN  IF HasTypeIn(parser.current_token, ComparisonOps)
                 THEN Call(t, [Top(t) EXCEPT !.pc = "179",
                                             !.left = left,
                                             !.op = parser.current_token],
                           MatchFrame(parser.current_token.token_type))
                 ELSE Return(t, left)
    /\ UNCHANGED <<parser, svars, ovars>>

\* parser.py:166-182
Exp(t) ==
    /\ \/ /\ AtTop(t, "exp", "170")
          /\ Call(t, [Top(t) EXCEPT !.pc = "172"], NewFrame("simple_exp"))
       \/ /\ AtTop(t, "exp", "172")
          /\ IF HasTypeIn(parser.current_token, ComparisonOps)
             THEN Call(t, [Top(t) EXCEPT !.pc = "179",
                                         !.left = Top(t).ret,
                                         !.op = parser.current_token],
                       MatchFrame(parser.current_token.token_type))
             ELSE Return(t, Top(t).ret)
       \/ /\ AtTop(t, "exp", "179")
          /\ Call(t, [Top(t) EXCEPT !.pc = "180"], NewFrame("simple_exp"))
       \/ /\ AtTop(t, "exp", "180")
          /\ Return(t, BinaryNode("exp", Top(t).left, Top(t).op, Top(t).ret))
    /\ UNCHANGED <<parser, svars, ovars>>

\* the loop of simple_exp and of term (parser.py:190-200, 208-218), entered
\* with the tree built so far: on an operator of this level remember it and
\* match it, otherwise return the tree
OperatorLoop(t, left, ops, pcMatched) ==
    IF HasTypeIn(parser.current_token, ops)
    THEN Call(t, [Top(t) EXCEPT !.pc = pcMatched,
                                !.left = left,
                                !.op = parser.current_token],
              MatchFrame(parser.current_token.token_type))
    ELSE Return(t, left)

\* parser.py:184-200
SimpleExp(t) ==
    /\ \/ /\ AtTop(t, "simple_exp", "188")
          /\ Call(t, [Top(t) EXCEPT !.pc = "190"], NewFrame("term"))
       \/ /\ AtTop(t, "simple_exp", "190")
          /\ OperatorLoop(t, Top(t).ret, AddOps, "197")
       \/ /\ AtTop(t, "simple_exp", "197")
          /\ Call(t, [Top(t) EXCEPT !.pc = "198"], NewFrame("term"))
       \/ /\ AtTop(t, "simple_exp", "198")
          /\ OperatorLoop(t, BinaryNode("simple_exp", Top(t).left, Top(t).op,
                                        Top(t).ret),
                          AddOps, "197")
    /\ UNCHANGED <<parser, svars, ovars>>

\* parser.py:202-218
Term(t) ==
    /\ \/ /\ AtTop(t, "term", "206")
          /\ Call(t, [Top(t) EXCEPT !.pc = "208"], NewFrame("factor"))
       \/ /\ AtTop(t, "term", "208")
          /\ OperatorLoop(t, Top(t).ret, MulOps, "215")
       \/ /\ AtTop(t, "term", "215")
          /\ Call(t, [Top(t) EXCEPT !.pc = "216"], NewFrame("factor"))
       \/ /\ AtTop(t, "term", "216")
          /\ OperatorLoop(t, BinaryNode("term", Top(t).left, Top(t).op,
                                        Top(t).ret),
                          MulOps, "215")
    /\ UNCHANGED <<parser, svars, ovars>>

\* factor() entering the bracketed expression without consuming the `(`
FactorKeepsBracket(t) ==
    /\ \/ /\ AtTop(t, "factor", "224")
          /\ IF parser.current_token = None
             THEN Raise(t, EndOfInput)
             ELSE IF parser.current_token.token_type = "OPENBRACKET"
             THEN Call(t, [Top(t) EXCEPT !.pc = "232"], NewFrame("exp"))
             ELSE IF parser.current_token.token_type = "NUMBER"
             THEN Call(t, [Top(t) EXCEPT !.pc = "235"], MatchFrame("NUMBER"))
             ELSE IF parser.current_token.token_type = "IDENTIFIER"
             THEN Call(t, [Top(t) EXCEPT !.pc = "235"],
                       MatchFrame("IDENTIFIER"))
             ELSE Raise(t, UnexpectedToken(parser.current_token))
       \/ /\ AtTop(t, "factor", "231")
          /\ Call(t, [Top(t) EXCEPT !.pc = "232"], NewFrame("exp"))
       \/ /\ AtTop(t, "factor", "232")
          /\ Call(t, [Top(t) EXCEPT !.pc = "233", !.exp_value = Top(t).ret],
                  MatchFrame("CLOSEDBRACKET"))
       \/ /\ AtTop(t, "factor", "233")
          /\ Return(t, [type |-> "factor", value |-> Top(t).exp_value])
       \/ /\ AtTop(t, "factor", "235")
          /\ Return(t, [type |-> "factor", value |-> Top(t).ret])
    /\ UNCHANGED <<parser, svars, ovars>>

\* parser.py:220-239
Factor(t) ==
    /\ \/ /\ AtTop(t, "factor", "224")
          /\ IF parser.current_token = None
             THEN Raise(t, EndOfInput)
             ELSE IF parser.current_token.token_type = "OPENBRACKET"
             THEN Call(t, [Top(t) EXCEPT !.pc = "231"],
                       MatchFrame("OPENBRACKET"))
             ELSE IF parser.current_token.token_type = "NUMBER"
             THEN Call(t, [Top(t) EXCEPT !.pc = "235"], MatchFrame("NUMBER"))
             ELSE IF parser.current_token.token_type = "IDENTIFIER"
             THEN Call(t, [Top(t) EXCEPT !.pc = "235"],
                       MatchFrame("IDENTIFIER"))
             ELSE Raise(t, UnexpectedToken(parser.current_token))
       \/ /\ AtTop(t, "factor", "231")
          /\ Call(t, [Top(t) EXCEPT !.pc = "232"], NewFrame("exp"))
       \/ /\ AtTop(t, "factor", "232")
          /\ Call(t, [Top(t) EXCEPT !.pc = "233", !.exp_value = Top(t).ret],
                  MatchFrame("CLOSEDBRACKET"))
       \/ /\ AtTop(t, "factor", "233")
          /\ Return(t, [type |-> "factor", value |-> Top(t).exp_value])
       \/ /\ AtTop(t, "factor", "235")
          /\ Return(t, [type |-> "factor", value |-> Top(t).ret])
    /\ UNCHANGED <<parser, svars, ovars>>

ParseStep(t) ==
    \/ ParseEnter(t)
    \/ Parse(t)
    \/ Match(t)
    \/ Program(t)
    \/ StmtSequence(t)
    \/ Statement(t)
    \/ IfStmt(t)
    \/ RepeatStmt(t)
    \/ AssignStmt(t)
    \/ ReadStmt(t)
    \/ WriteStmt(t)
    \/ Exp(t)
    \/ SimpleExp(t)
    \/ Term(t)
    \/ Factor(t)

(***************************************************************************)
(* Inputs of the scanner                                                   *)
(***************************************************************************)
MaxCodeLen == 4

\* the characters the enumerated source texts are built from
CodeChars == {"i", "f", "F", "1", " ", ":", "=", "-", "@"}

SeqsUpTo(S, n) == UNION {[1..k -> S] : k \in 0..n}

\* "read x; if x < 0 then x := 0 end; write x" (scanner.py:104)
SampleCode ==
    <<"r","e","a","d"," ","x",";"," ","i","f"," ","x"," ","<"," ","0"," ",
      "t","h","e","n"," ","x"," ",":","="," ","0"," ","e","n","d",";"," ",
      "w","r","i","t","e"," ","x">>

SampleCodes ==
    { SampleCode,
      <<"x"," ","@"," ","y">>,
      <<"I","F">>,
      <<"I","f">>,
      <<"r","e","a","d"," ","x","1","2"," ","-","3","4">>,
      <<"x",":","=","(","a","+","b",")","*","c","/","2","=","7">>,
      <<"E","n","D","\t","U","N","T","I","L","\n","e","n","d","s">>,
      <<"x"," ",":","="," ","1",":"," ","y">>,
      <<"1","2","a","b"," ","a","b","1","2">> }

CodeInputs == SeqsUpTo(CodeChars, MaxCodeLen) \cup SampleCodes

\* a Scanner after __init__ (scanner.py:28-29) and one pending scan(code)
NewScanCall(code) ==
    [pc |-> "call", code |-> code, position |-> 0, ret |-> NoRef, exc |-> None]

\* a Scanner after __init__ (scanner.py:28-29): self.tokens = []
NewScanner == [tokens |-> 1]
NewHeap == << <<>> >>

\* a SyntaxTreeVisualizer after __init__ (visualizer.py:8-13)
NewVisualizer ==
    [graph |-> None, node_count |-> 0, node_labels |-> <<>>]

\* no token file has been written
NoFile == None

\* a Parser after __init__ (parser.py:24-28)
NewParser ==
    [tokens |-> <<>>, current_token_index |-> 0,
     current_token |-> None, syntax_tree |-> None]

\* one pending parse(tokens)
NewParseCall(tokens) ==
    [pc |-> "call", arg |-> tokens, stack |-> <<>>, ret |-> NoResult]

ScanInit ==
    /\ file = NoFile
    /\ visualizer = NewVisualizer
    /\ heap = NewHeap
    /\ scanner = NewScanner
    /\ \E code \in CodeInputs : scan_call = <<NewScanCall(code)>>
    /\ parser = NewParser
    /\ parse_call = <<>>

ScanNext == \E t \in DOMAIN scan_call : ScanStep(t)

ScanSpec == ScanInit /\ [][ScanNext]_vars

(***************************************************************************)
(* Inputs of the parser                                                    *)
(***************************************************************************)
MaxTokens == 4

\* the token kinds (scanner.py:4-25, 53, 62)
Kinds ==
    {"IF", "THEN", "END", "REPEAT", "UNTIL", "READ", "WRITE", "SEMICOLON",
     "ASSIGN", "LESSTHAN", "EQUAL", "PLUS", "MINUS", "MULT", "DIV",
     "OPENBRACKET", "CLOSEDBRACKET", "NUMBER", "IDENTIFIER"}

\* a lexeme of each kind: the key of TOKEN_TYPES, x, 0
Lexeme(kind) ==
    CASE kind = "IDENTIFIER" -> <<"x">>
      [] kind = "NUMBER" -> <<"0">>
      [] OTHER -> CHOOSE key \in DOMAIN TOKEN_TYPES : TOKEN_TYPES[key] = kind

\* the kinds the enumerated token sequences are built from
EnumKinds ==
    {"READ", "IDENTIFIER", "SEMICOLON", "ASSIGN", "LESSTHAN", "PLUS", "MULT",
     "END"}

K(kind) == Token(Lexeme(kind), kind)
Id(c) == Token(<<c>>, "IDENTIFIER")
Num(c) == Token(<<c>>, "NUMBER")

\* read x; if x < 0 then x := 0 end; write x   (parser.py:262)
SampleTokens ==
    <<K("READ"), Id("x"), K("SEMICOLON"), K("IF"), Id("x"), K("LESSTHAN"),
      Num("0"), K("THEN"), Id("x"), K("ASSIGN"), Num("0"), K("END"),
      K("SEMICOLON"), K("WRITE"), Id("x")>>

\* read x end
ReadEnd == <<K("READ"), Id("x"), K("END")>>

\* read x;
ReadSemicolon == <<K("READ"), Id("x"), K("SEMICOLON")>>

\* repeat x := 1; until x = 1
RepeatTrailing ==
    <<K("REPEAT"), Id("x"), K("ASSIGN"), Num("1"), K("SEMICOLON"),
      K("UNTIL"), Id("x"), K("EQUAL"), Num("1")>>

\* x := a < b < c
ChainedComparison ==
    <<Id("x"), K("ASSIGN"), Id("a"), K("LESSTHAN"), Id("b"), K("LESSTHAN"),
      Id("c")>>

\* x := (a < b) = c
BracketedComparison ==
    <<Id("x"), K("ASSIGN"), K("OPENBRACKET"), Id("a"), K("LESSTHAN"), Id("b"),
      K("CLOSEDBRACKET"), K("EQUAL"), Id("c")>>

\* x := a + b * c - d / 2
Arithmetic ==
    <<Id("x"), K("ASSIGN"), Id("a"), K("PLUS"), Id("b"), K("MULT"), Id("c"),
      K("MINUS"), Id("d"), K("DIV"), Num("2")>>

\* if x then read y; end
IfTrailing ==
    <<K("IF"), Id("x"), K("THEN"), K("READ"), Id("y"), K("SEMICOLON"),
      K("END")>>

\* repeat if a < 1 then write b end; x := (a + 1) * 2 until x = 0; read y
Nested ==
    <<K("REPEAT"), K("IF"), Id("a"), K("LESSTHAN"), Num("1"), K("THEN"),
      K("WRITE"), Id("b"), K("END"), K("SEMICOLON"), Id("x"), K("ASSIGN"),
      K("OPENBRACKET"), Id("a"), K("PLUS"), Num("1"), K("CLOSEDBRACKET"),
      K("MULT"), Num("2"), K("UNTIL"), Id("x"), K("EQUAL"), Num("0"),
      K("SEMICOLON"), K("READ"), Id("y")>>

\* x := a - b + c
AddChain ==
    <<Id("x"), K("ASSIGN"), Id("a"), K("MINUS"), Id("b"), K("PLUS"), Id("c")>>

\* write a / b * c
MulChain ==
    <<K("WRITE"), Id("a"), K("DIV"), Id("b"), K("MULT"), Id("c")>>

\* if a then read b end
IfRead ==
    <<K("IF"), Id("a"), K("THEN"), K("READ"), Id("b"), K("END")>>

\* repeat x := 1 until 0
RepeatAssign ==
    <<K("REPEAT"), Id("x"), K("ASSIGN"), Num("1"), K("UNTIL"), Num("0")>>

\* write x end
WriteEnd == <<K("WRITE"), Id("x"), K("END")>>

Samples ==
    { SampleTokens, ReadEnd, ReadSemicolon, RepeatTrailing, ChainedComparison,
      BracketedComparison, Arithmetic, IfTrailing, Nested, AddChain, MulChain,
      IfRead, RepeatAssign, WriteEnd }

\* the token sequences one edit away from s: a token replaced by a token of
\* any kind, a token removed, s cut short
Replaced(s) ==
    {[s EXCEPT ![i] = K(kind)] : i \in DOMAIN s, kind \in Kinds}
Removed(s) ==
    {SubSeq(s, 1, i - 1) \o SubSeq(s, i + 1, Len(s)) : i \in DOMAIN s}
Prefixes(s) == {SubSeq(s, 1, n) : n \in 0..Len(s)}
Edits(s) == Replaced(s) \cup Removed(s) \cup Prefixes(s)

TokenInputs ==
    {[i \in DOMAIN ks |-> K(ks[i])] : ks \in SeqsUpTo(EnumKinds, MaxTokens)}
        \cup UNION {Edits(s) : s \in Samples}

Init ==
    /\ file = NoFile
    /\ visualizer = NewVisualizer
    /\ heap = NewHeap
    /\ scanner = NewScanner
    /\ scan_call = <<>>
    /\ parser = NewParser
    /\ \E tokens \in TokenInputs : parse_call = <<NewParseCall(tokens)>>

Next == \E t \in DOMAIN parse_call : ParseStep(t)

Spec == Init /\ [][Next]_vars

(***************************************************************************)
(* One call of scan or one call of parse that is run to its end: the       *)
(* interpreter goes on executing a call as long as it has a next           *)
(* statement, which is weak fairness of the step.                          *)
(***************************************************************************)
RunInit == ScanInit \/ Init

RunNext ==
    \/ \E t \in DOMAIN scan_call : ScanStep(t)
    \/ \E t \in DOMAIN parse_call : ParseStep(t)

RunSpec == RunInit /\ [][RunNext]_vars /\ WF_vars(RunNext)

(***************************************************************************)
(* The token file: Scanner.save_tokens_to_file and Parser.parse_file.      *)
(* The text of the file is a sequence of pieces: the characters of the     *)
(* lexemes, the commas and newlines, and each kind name as one piece (a    *)
(* kind name holds neither a comma nor white space).                       *)
(***************************************************************************)
\* f"{token_value},{token_type}\n" with the two fields exchanged
SaveLineTypeFirst(token) ==
    <<token.token_type, ",">> \o token.token_value \o <<"\n">>

\* scanner.py:97: f"{token_value},{token_type}\n"
SaveLine(token) ==
    token.token_value \o <<",", token.token_type, "\n">>

RECURSIVE SaveTokens(_)
\* scanner.py:95-97: the text written for a token list
SaveTokens(tokens) ==
    IF tokens = <<>>
    THEN <<>>
    ELSE SaveLine(Head(tokens)) \o SaveTokens(Tail(tokens))

RECURSIVE SplitOn(_, _)
\* str.split(sep) for a one-piece separator: the parts between separators
SplitOn(text, sep) ==
    IF \A i \in DOMAIN text : text[i] # sep
    THEN <<text>>
    ELSE LET i == CHOOSE k \in DOMAIN text :
                    /\ text[k] = sep
                    /\ \A j \in 1..(k - 1) : text[j] # sep
         IN  <<SubSeq(text, 1, i - 1)>>
                \o SplitOn(SubSeq(text, i + 1, Len(text)), sep)

\* parser.py:247: the lines of the file, a last line without newline too
FileLines(text) ==
    LET parts == SplitOn(text, "\n")
    IN  IF parts[Len(parts)] = <<>>
        THEN SubSeq(parts, 1, Len(parts) - 1)
        ELSE parts

\* parser.py:248: line.strip()
Strip(line) ==
    LET inked == {i \in DOMAIN line : ~IsSpace(line[i])}
    IN  IF inked = {}
        THEN <<>>
        ELSE SubSeq(line, CHOOSE i \in inked : \A j \in inked : i <= j,
                          CHOOSE i \in inked : \A j \in inked : i >= j)

RECURSIVE Join(_)
\* the str made of the pieces of a part
Join(pieces) ==
    IF pieces = <<>> THEN "" ELSE Head(pieces) \o Join(Tail(pieces))

\* parser.py:245-251: the token list read from the text of a file, and the
\* ValueError of line 250 when a line has not exactly two fields
LoadTokens(text) ==
    LET lines == SelectSeq([n \in DOMAIN FileLines(text) |->
                                Strip(FileLines(text)[n])],
                           LAMBDA line : line # <<>>)
        fields(n) == SplitOn(lines[n], ",")
        bad == {n \in DOMAIN lines : Len(fields(n)) # 2}
    IN  IF bad # {}
        THEN [tokens |-> <<>>,
              exc |-> Str(<<"ValueError: cannot unpack ",
                            Len(fields(CHOOSE n \in bad : \A m \in bad : n <= m)),
                            " values into (token_value, token_type)">>)]
        ELSE [tokens |-> [n \in DOMAIN lines |->
                            Token(fields(n)[1], Join(fields(n)[2]))],
              exc |-> None]

\* scanner.py:91-97 on the list a scan returned
SaveTokensToFile ==
    /\ Len(scan_call) = 1
    /\ scan_call[1].pc = "returned"
    /\ file = NoFile
    /\ file' = [text |-> SaveTokens(heap[scan_call[1].ret])]
    /\ UNCHANGED <<svars, pvars, visualizer>>

\* gui.py:116-128, parser.py:263-270: the list a scan returned is parsed
ParseScanned ==
    /\ Len(scan_call) = 1
    /\ scan_call[1].pc = "returned"
    /\ parse_call = <<>>
    /\ parse_call' = <<NewParseCall(heap[scan_call[1].ret])>>
    /\ UNCHANGED <<svars, parser, ovars>>

\* parser.py:241-252: parse_file reads the file and calls parse, once the
\* parse of the scanned list is over
ParseFile ==
    /\ file # NoFile
    /\ Len(parse_call) = 1
    /\ parse_call[1].pc = "returned"
    /\ LET loaded == LoadTokens(file.text)
       IN  parse_call' = Append(parse_call,
                IF loaded.exc = None
                THEN NewParseCall(loaded.tokens)
                ELSE [NewParseCall(<<>>) EXCEPT !.pc = "raised",
                                                !.ret = <<loaded.exc>>])
    /\ UNCHANGED <<svars, parser, ovars>>

RoundTripInit ==
    /\ file = NoFile
    /\ visualizer = NewVisualizer
    /\ heap = NewHeap
    /\ scanner = NewScanner
    /\ \E code \in CodeInputs : scan_call = <<NewScanCall(code)>>
    /\ parser = NewParser
    /\ parse_call = <<>>

RoundTripNext ==
    \/ \E t \in DOMAIN scan_call : ScanStep(t)
    \/ SaveTokensToFile
    \/ ParseScanned
    \/ ParseFile
    \/ \E t \in DOMAIN parse_call : ParseStep(t)

RoundTripSpec == RoundTripInit /\ [][RoundTripNext]_vars

(***************************************************************************)
(* Two calls running at once on one Scanner or one Parser.  A step of the  *)
(* model is at least one statement of the source, so every interleaving of *)
(* the model is one the threads of the program can produce.                *)
(***************************************************************************)
\* the source texts of the concurrent scans: `x:=1 `, `if @` and `-`
ConcCodes ==
    { <<"x", ":", "=", "1", " ">>, <<"i", "f", " ", "@">>, <<"-">> }

\* the token sequences of the concurrent parses
ConcTokens == { IfRead, RepeatAssign, WriteEnd }

ConcInit ==
    /\ file = NoFile
    /\ visualizer = NewVisualizer
    /\ heap = NewHeap
    /\ scanner = NewScanner
    /\ parser = NewParser
    /\ \/ /\ \E a \in ConcCodes, b \in ConcCodes :
                scan_call = <<NewScanCall(a), NewScanCall(b)>>
          /\ parse_call = <<>>
       \/ /\ \E a \in ConcTokens, b \in ConcTokens :
                parse_call = <<NewParseCall(a), NewParseCall(b)>>
          /\ scan_call = <<>>

ConcNext ==
    \/ \E t \in DOMAIN scan_call : ScanStep(t)
    \/ \E t \in DOMAIN parse_call : ParseStep(t)

ConcSpec == ConcInit /\ [][ConcNext]_vars

(***************************************************************************)
(* Three calls, one after the other, on one Scanner or one Parser: the     *)
(* third call is given the argument of the first.                          *)
(***************************************************************************)
\* the source texts of the successive scans: ConcCodes, the empty text and `1x`
SeqCodes == ConcCodes \cup { <<>>, <<"1", "x">> }

\* the token sequences of the successive parses
SeqTokens == ConcTokens \cup { <<>>, ReadSemicolon, Nested }

SeqInit ==
    /\ file = NoFile
    /\ visualizer = NewVisualizer
    /\ heap = NewHeap
    /\ scanner = NewScanner
    /\ parser = NewParser
    /\ \/ /\ \E a \in SeqCodes, b \in SeqCodes :
                scan_call = <<NewScanCall(a), NewScanCall(b), NewScanCall(a)>>
          /\ parse_call = <<>>
       \/ /\ \E a \in SeqTokens, b \in SeqTokens :
                parse_call = <<NewParseCall(a), NewParseCall(b), NewParseCall(a)>>
          /\ scan_call = <<>>

\* a call starts when the calls before it are over
ScanOver(t) == scan_call[t].pc \in {"returned", "raised"}
ParseOver(t) == parse_call[t].pc = "returned"

SeqNext ==
    \/ \E t \in DOMAIN scan_call :
            /\ \A u \in 1..(t - 1) : ScanOver(u)
            /\ ScanStep(t)
    \/ \E t \in DOMAIN parse_call :
            /\ \A u \in 1..(t - 1) : ParseOver(u)
            /\ ParseStep(t)

SeqSpec == SeqInit /\ [][SeqNext]_vars

(***************************************************************************)
(* SyntaxTreeVisualizer (src/visualizer.py): the graph built from the tree *)
(* of a successful parse.  The graph is its set of node ids and its set of *)
(* edges (parent id, child id).                                            *)
(***************************************************************************)
\* visualizer.py:57: f"node_{self.node_count}"
NodeId(node_count) == Str(<<"node_", node_count>>)

\* visualizer.py:131-182
CreateNodeLabel(node) ==
    CASE node.type = "program" -> Str(<<"Program">>)
      [] node.type = "stmt_sequence" -> Str(<<"Statement Sequence">>)
      [] node.type = "if_stmt" -> Str(<<"if">>)
      [] node.type = "repeat_stmt" -> Str(<<"repeat">>)
      [] node.type = "assign_stmt" ->
            Str(<<"assign\n(", node.identifier.token_value, ")">>)
      [] node.type = "read_stmt" ->
            Str(<<"read (", node.identifier.token_value, ")">>)
      [] node.type = "write_stmt" -> Str(<<"write">>)
      [] node.type \in {"exp", "simple_exp", "term"} ->
            Str(<<"OP (", node.op.token_value, ")">>)
      [] node.type = "factor" ->
            IF "type" \in DOMAIN node.value
            THEN Str(<<"Factor (Expression)">>)
            ELSE IF node.value.token_type = "NUMBER"
            THEN Str(<<"const (", node.value.token_value, ")">>)
            ELSE Str(<<"id (", node.value.token_value, ")">>)

\* visualizer.py:75-108: the children _build_graph goes on to, in the
\* order of the calls; a node type without a branch has none
BuildGraphChildren(node) ==
    CASE node.type = "program" -> <<node.body>>
      [] node.type = "stmt_sequence" -> node.statements
      [] node.type = "if_stmt" -> <<node.condition, node.body>>
      [] node.type = "repeat_stmt" -> <<node.body, node.condition>>
      [] node.type = "assign_stmt" -> <<node.value>>
      [] node.type = "write_stmt" -> <<node.value>>
      [] node.type = "exp" -> <<node.left, node.right>>
      [] node.type = "simple_exp" -> <<node.left, node.right>>
      [] node.type = "term" -> <<node.left, node.right>>
      [] OTHER -> <<>>

RECURSIVE BuildGraph(_, _, _), BuildGraphEach(_, _, _)
\* visualizer.py:43-110: the visualizer after _build_graph(node, parent_id)
BuildGraph(v, node, parent_id) ==
    IF node = None
    THEN v
    ELSE LET node_id == NodeId(v.node_count)
             added == [v EXCEPT
                !.node_count = @ + 1,
                !.node_labels = (node_id :> CreateNodeLabel(node)) @@ @,
                !.graph = [nodes |-> @.nodes \cup {node_id},
                           edges |-> IF parent_id # None
                                     THEN @.edges \cup {<<parent_id, node_id>>}
                                     ELSE @.edges]]
         IN  BuildGraphEach(added, BuildGraphChildren(node), node_id)

\* the calls of _build_graph on the children of a node, one after the other
BuildGraphEach(v, nodes, parent_id) ==
    IF nodes = <<>>
    THEN v
    ELSE BuildGraphEach(BuildGraph(v, Head(nodes), parent_id), Tail(nodes),
                        parent_id)

\* gui.py:128-139, 172 and visualizer.py:15-41: the tree of a successful
\* parse is visualized
Visualize ==
    /\ visualizer.graph = None
    /\ \E t \in DOMAIN parse_call :
          /\ parse_call[t].pc = "returned"
          /\ parse_call[t].ret[1]
          /\ visualizer' = BuildGraph(
                [visualizer EXCEPT !.node_count = 0, !.node_labels = <<>>,
                                   !.graph = [nodes |-> {}, edges |-> {}]],
                parse_call[t].ret[2], None)
    /\ UNCHANGED <<svars, pvars, file>>

VisNext ==
    \/ \E t \in DOMAIN parse_call : ParseStep(t)
    \/ Visualize

VisSpec == Init /\ [][VisNext]_vars

(***************************************************************************)
(* The grammar of the parser, as a recogniser of kind sequences            *)
(*   ks[i..j] is derivable from the nonterminal                            *)
(***************************************************************************)
KindsOf(tokens) == [i \in DOMAIN tokens |-> tokens[i].token_type]

RECURSIVE DerivesExp(_, _, _), DerivesSimpleExp(_, _, _), DerivesTerm(_, _, _),
          DerivesFactor(_, _, _), DerivesStatement(_, _, _),
          DerivesStmtSequence(_, _, _)

DerivesFactor(ks, i, j) ==
    \/ i = j /\ ks[i] \in {"NUMBER", "IDENTIFIER"}
    \/ /\ i + 2 <= j
       /\ ks[i] = "OPENBRACKET"
       /\ ks[j] = "CLOSEDBRACKET"
       /\ DerivesExp(ks, i + 1, j - 1)

DerivesTerm(ks, i, j) ==
    \/ DerivesFactor(ks, i, j)
    \/ \E k \in i + 1 .. j - 1 :
          /\ ks[k] \in {"MULT", "DIV"}
          /\ DerivesFactor(ks, k + 1, j)
          /\ DerivesTerm(ks, i, k - 1)

DerivesSimpleExp(ks, i, j) ==
    \/ DerivesTerm(ks, i, j)
    \/ \E k \in i + 1 .. j - 1 :
          /\ ks[k] \in {"PLUS", "MINUS"}
          /\ DerivesTerm(ks, k + 1, j)
          /\ DerivesSimpleExp(ks, i, k - 1)

DerivesExp(ks, i, j) ==
    \/ DerivesSimpleExp(ks, i, j)
    \/ \E k \in i + 1 .. j - 1 :
          /\ ks[k] \in {"LESSTHAN", "EQUAL"}
          /\ DerivesSimpleExp(ks, i, k - 1)
          /\ DerivesSimpleExp(ks, k + 1, j)

DerivesStatement(ks, i, j) ==
    /\ i < j
    /\ \/ /\ ks[i] = "IF"
          /\ ks[j] = "END"
          /\ \E k \in i + 2 .. j - 2 :
                /\ ks[k] = "THEN"
                /\ DerivesExp(ks, i + 1, k - 1)
                /\ DerivesStmtSequence(ks, k + 1, j - 1)
       \/ /\ ks[i] = "REPEAT"
          /\ \E k \in i + 2 .. j - 1 :
                /\ ks[k] = "UNTIL"
                /\ DerivesStmtSequence(ks, i + 1, k - 1)
                /\ DerivesExp(ks, k + 1, j)
       \/ /\ ks[i] = "IDENTIFIER"
          /\ ks[i + 1] = "ASSIGN"
          /\ DerivesExp(ks, i + 2, j)
       \/ /\ ks[i] = "READ"
          /\ j = i + 1
          /\ ks[j] = "IDENTIFIER"
       \/ /\ ks[i] = "WRITE"
          /\ DerivesExp(ks, i + 1, j)

DerivesStmtSequence(ks, i, j) ==
    \/ DerivesStatement(ks, i, j)
    \/ \E k \in i + 1 .. j - 1 :
          /\ ks[k] = "SEMICOLON"
          /\ DerivesStatement(ks, k + 1, j)
          /\ DerivesStmtSequence(ks, i, k - 1)

\* program -> stmt_sequence
Derivable(ks) == Len(ks) > 0 /\ DerivesStmtSequence(ks, 1, Len(ks))

\* the nesting depth after ks[1..i]: blocks opened by IF and REPEAT, closed
\* by END and UNTIL
Count(ks, i, kinds) == Cardinality({k \in 1..i : ks[k] \in kinds})
BlockDepth(ks, i) ==
    Count(ks, i, {"IF", "REPEAT"}) - Count(ks, i, {"END", "UNTIL"})

\* where the top-level statements of a program start, in source order
TopLevelStarts(ks) ==
    SelectSeq([i \in 1..Len(ks) |-> i],
              LAMBDA i : \/ i = 1
                         \/ ks[i - 1] = "SEMICOLON" /\ BlockDepth(ks, i - 1) = 0)

\* the node type of the statement a kind begins
StatementNode(kind) ==
    CASE kind = "IF" -> "if_stmt"
      [] kind = "REPEAT" -> "repeat_stmt"
      [] kind = "READ" -> "read_stmt"
      [] kind = "WRITE" -> "write_stmt"
      [] kind = "IDENTIFIER" -> "assign_stmt"

TopLevelStatements(ks) ==
    [n \in DOMAIN TopLevelStarts(ks) |-> StatementNode(ks[TopLevelStarts(ks)[n]])]

NodeTypes(nodes) == [n \in DOMAIN nodes |-> nodes[n].type]

(***************************************************************************)
(* Properties of Parser.parse                                              *)
(***************************************************************************)
Returned(t) == parse_call[t].pc = "returned"
Ok(t) == parse_call[t].ret[1]
Payload(t) == parse_call[t].ret[2]

\* C1: parse returns ok=True only with the cursor at len(tokens); whenever
\* program() has returned (the tree is stored) and a token is left, parse
\* returns ok=False and the message names the first unconsumed token;
\* "read x end" fails naming `end`.
C1_AllTokensConsumed ==
    \A t \in DOMAIN parse_call :
        Returned(t) =>
            LET tokens == parse_call[t].arg
                cursor == parser.current_token_index
            IN  /\ Ok(t) => cursor = Len(tokens)
                /\ (parser.syntax_tree # None /\ cursor < Len(tokens)) =>
                        /\ ~Ok(t)
                        /\ Payload(t) =
                              Str(<<"Unexpected token: ", tokens[cursor + 1]>>)
                /\ tokens = ReadEnd =>
                        /\ ~Ok(t)
                        /\ Payload(t) =
                              Str(<<"Unexpected token: ",
                                    Token(<<"e","n","d">>, "END")>>)

\* "read x end" was parsed: program() returned and `end` was left over
C1_Witness ==
    /\ Returned(1)
    /\ parse_call[1].arg = ReadEnd
    /\ parser.syntax_tree # None
    /\ parser.current_token_index = 2

\* C2: every token sequence derivable from the grammar is accepted, with a
\* program node whose stmt_sequence lists one node per top-level statement
\* in source order; the 15 sample tokens give read_stmt, if_stmt,
\* write_stmt.
C2_DerivableAccepted ==
    \A t \in DOMAIN parse_call :
        Returned(t) =>
            LET ks == KindsOf(parse_call[t].arg)
            IN  /\ Derivable(ks) =>
                    /\ Ok(t)
                    /\ Payload(t).type = "program"
                    /\ Payload(t).body.type = "stmt_sequence"
                    /\ NodeTypes(Payload(t).body.statements)
                            = TopLevelStatements(ks)
                /\ parse_call[t].arg = SampleTokens =>
                    /\ Ok(t)
                    /\ Len(parse_call[t].arg) = 15
                    /\ NodeTypes(Payload(t).body.statements)
                            = <<"read_stmt", "if_stmt", "write_stmt">>

\* the sample program was parsed and accepted
C2_Witness ==
    /\ Returned(1)
    /\ parse_call[1].arg = SampleTokens
    /\ Derivable(KindsOf(SampleTokens))
    /\ Ok(1)

\* C3: when the last token is a SEMICOLON that stmt_sequence consumed (the
\* cursor reached the end), another statement is attempted and the parse
\* fails with "Unexpected end of input".
C3_SemicolonAtEndFails ==
    \A t \in DOMAIN parse_call :
        Returned(t) =>
            LET tokens == parse_call[t].arg
            IN  (/\ Len(tokens) > 0
                 /\ tokens[Len(tokens)].token_type = "SEMICOLON"
                 /\ parser.current_token_index = Len(tokens)) =>
                    /\ ~Ok(t)
                    /\ Payload(t) = Str(<<"Unexpected end of input">>)

(***************************************************************************)
(* Syntax trees                                                            *)
(***************************************************************************)
IsNode(x) == "type" \in DOMAIN x
IsToken(x) == "token_type" \in DOMAIN x
IsStr(x) == "str" \in DOMAIN x

\* the child nodes of a node, in source order (tokens are not nodes)
Children(node) ==
    CASE node.type = "program" -> <<node.body>>
      [] node.type = "stmt_sequence" -> node.statements
      [] node.type = "if_stmt" -> <<node.condition, node.body>>
      [] node.type = "repeat_stmt" -> <<node.body, node.condition>>
      [] node.type = "assign_stmt" -> <<node.value>>
      [] node.type = "read_stmt" -> <<>>
      [] node.type = "write_stmt" -> <<node.value>>
      [] node.type \in {"exp", "simple_exp", "term"} -> <<node.left, node.right>>
      [] node.type = "factor" ->
            IF IsToken(node.value) THEN <<>> ELSE <<node.value>>

RECURSIVE Nodes(_)
Nodes(node) == {node} \cup UNION {Nodes(Children(node)[i]) : i \in DOMAIN Children(node)}

RECURSIVE Flatten(_)
Flatten(seqs) == IF seqs = <<>> THEN <<>> ELSE Head(seqs) \o Flatten(Tail(seqs))

\* the tokens a tree holds, in source order
RECURSIVE TreeTokens(_)
TreeTokens(node) ==
    LET below == [i \in DOMAIN Children(node) |-> TreeTokens(Children(node)[i])]
    IN  CASE node.type \in {"assign_stmt", "read_stmt"} ->
                <<node.identifier>> \o Flatten(below)
          [] node.type \in {"exp", "simple_exp", "term"} ->
                below[1] \o <<node.op>> \o below[2]
          [] node.type = "factor" /\ IsToken(node.value) -> <<node.value>>
          [] OTHER -> Flatten(below)

\* the types of the statement nodes of a tree, in source order
RECURSIVE StatementTypes(_)
StatementTypes(node) ==
    LET below == Flatten([i \in DOMAIN Children(node) |->
                            StatementTypes(Children(node)[i])])
    IN  IF node.type \in {"if_stmt", "repeat_stmt", "assign_stmt", "read_stmt",
                          "write_stmt"}
        THEN <<node.type>> \o below
        ELSE below

\* a tree of the shape the data model gives: every field holds a node or
\* token of the right sort, nothing is missing
HasKind(x, kinds) == IsToken(x) /\ x.token_type \in kinds

RECURSIVE WellFormed(_)
WellFormed(node) ==
    /\ IsNode(node)
    /\ \A i \in DOMAIN Children(node) : WellFormed(Children(node)[i])
    /\ LET sorts == [i \in DOMAIN Children(node) |-> Children(node)[i].type]
           Exprs == {"exp", "simple_exp", "term", "factor"}
           Stmts == {"if_stmt", "repeat_stmt", "assign_stmt", "read_stmt",
                     "write_stmt"}
       IN  CASE node.type = "program" -> sorts = <<"stmt_sequence">>
             [] node.type = "stmt_sequence" ->
                    Len(sorts) >= 1 /\ Range(sorts) \subseteq Stmts
             [] node.type = "if_stmt" ->
                    sorts[1] \in Exprs /\ sorts[2] = "stmt_sequence"
             [] node.type = "repeat_stmt" ->
                    sorts[1] = "stmt_sequence" /\ sorts[2] \in Exprs
             [] node.type = "assign_stmt" ->
                    HasKind(node.identifier, {"IDENTIFIER"}) /\ sorts[1] \in Exprs
             [] node.type = "read_stmt" ->
                    HasKind(node.identifier, {"IDENTIFIER"})
             [] node.type = "write_stmt" -> sorts[1] \in Exprs
             [] node.type = "exp" ->
                    /\ HasKind(node.op, {"LESSTHAN", "EQUAL"})
                    /\ Range(sorts) \subseteq Exprs
             [] node.type = "simple_exp" ->
                    /\ HasKind(node.op, {"PLUS", "MINUS"})
                    /\ Range(sorts) \subseteq Exprs
             [] node.type = "term" ->
                    /\ HasKind(node.op, {"MULT", "DIV"})
                    /\ Range(sorts) \subseteq Exprs
             [] node.type = "factor" ->
                    \/ HasKind(node.value, {"NUMBER", "IDENTIFIER"})
                    \/ sorts \in {<<"exp">>, <<"simple_exp">>, <<"term">>,
                                  <<"factor">>}
             [] OTHER -> FALSE

\* the tokens of the input that a tree keeps: operands and operators
KeptKinds ==
    {"IDENTIFIER", "NUMBER", "LESSTHAN", "EQUAL", "PLUS", "MINUS", "MULT",
     "DIV"}
Kept(tokens) == SelectSeq(tokens, LAMBDA tok : tok.token_type \in KeptKinds)

\* the input without the semicolons that stand right before END or UNTIL
WithoutTrailing(ks) ==
    LET keep == SelectSeq([i \in 1..Len(ks) |-> i],
                    LAMBDA i : ~(/\ ks[i] = "SEMICOLON"
                                 /\ i < Len(ks)
                                 /\ ks[i + 1] \in {"END", "UNTIL"}))
    IN  [n \in DOMAIN keep |-> ks[keep[n]]]

\* the statements of an input in source order, by the token each begins with
StatementStarts(ks) ==
    LET starts == SelectSeq([i \in 1..Len(ks) |-> i],
                    LAMBDA i : \/ ks[i] \in {"IF", "REPEAT", "READ", "WRITE"}
                               \/ /\ ks[i] = "IDENTIFIER"
                                  /\ i < Len(ks)
                                  /\ ks[i + 1] = "ASSIGN")
    IN  [n \in DOMAIN starts |-> StatementNode(ks[starts[n]])]

\* C4: a SEMICOLON followed by END or UNTIL is consumed and ends the
\* sequence without another statement: a derivable program with single
\* semicolons added before block terminators is accepted and its tree has
\* exactly the statements of the input; "repeat x := 1; until x = 1" is
\* accepted with one statement in the repeat body.
C4_TrailingSemicolonAccepted ==
    \A t \in DOMAIN parse_call :
        Returned(t) =>
            LET ks == KindsOf(parse_call[t].arg)
            IN  /\ (WithoutTrailing(ks) # ks /\ Derivable(WithoutTrailing(ks))) =>
                    /\ Ok(t)
                    /\ parser.current_token_index = Len(ks)
                    /\ StatementTypes(Payload(t)) = StatementStarts(ks)
                /\ parse_call[t].arg = RepeatTrailing =>
                    /\ Ok(t)
                    /\ NodeTypes(Payload(t).body.statements) = <<"repeat_stmt">>
                    /\ NodeTypes(Payload(t).body.statements[1].body.statements)
                            = <<"assign_stmt">>

\* "repeat x := 1; until x = 1" was parsed: the semicolon before `until`
\* was consumed
C4_Witness ==
    /\ Returned(1)
    /\ parse_call[1].arg = RepeatTrailing
    /\ WithoutTrailing(KindsOf(RepeatTrailing)) # KindsOf(RepeatTrailing)
    /\ Derivable(WithoutTrailing(KindsOf(RepeatTrailing)))
    /\ parser.current_token_index = 9

C9_MatchOutcomes ==
    [][\A t \in DOMAIN parse_call :
        AtTop(t, "match", "57") =>
            LET tokens == parse_call[t].arg
                cursor == parser.current_token_index
                expected == Top(t).expected_type
                depth == Len(Stack(t))
            IN  IF cursor >= Len(tokens)
                THEN /\ parse_call'[t].pc = "returned"
                     /\ parse_call'[t].ret =
                            <<FALSE, Str(<<"Unexpected end of input">>)>>
                     /\ parser' = parser
                ELSE IF tokens[cursor + 1].token_type # expected
                THEN /\ parse_call'[t].pc = "returned"
                     /\ parse_call'[t].ret =
                            <<FALSE, Str(<<"Expected ", expected, ", but found ",
                                           tokens[cursor + 1].token_type>>)>>
                     /\ parser' = parser
                ELSE /\ parse_call'[t].pc = "running"
                     /\ Len(parse_call'[t].stack) = depth - 1
                     /\ parse_call'[t].stack[depth - 1].ret = tokens[cursor + 1]
                     /\ parser'.current_token_index = cursor + 1
                     /\ parser'.current_token =
                            IF cursor + 1 < Len(tokens)
                            THEN tokens[cursor + 2] ELSE None
                     /\ parser'.tokens = parser.tokens
    ]_vars

\* match failed on a token of the wrong kind after it had consumed others
C9_Witness ==
    /\ Returned(1)
    /\ ~Ok(1)
    /\ Payload(1).str[1] = "Expected "
    /\ parser.current_token_index > 0

\* two comparison operators of one expression: only operands, operators
\* and balanced brackets stand between them
ExpressionKinds == KeptKinds \cup {"OPENBRACKET", "CLOSEDBRACKET"}
Balance(ks, i, j) ==
    Cardinality({k \in i..j : ks[k] = "OPENBRACKET"})
        - Cardinality({k \in i..j : ks[k] = "CLOSEDBRACKET"})
HasChain(ks) ==
    \E i, j \in DOMAIN ks :
        /\ i < j
        /\ ks[i] \in {"LESSTHAN", "EQUAL"}
        /\ ks[j] \in {"LESSTHAN", "EQUAL"}
        /\ \A k \in i + 1 .. j - 1 :
              ks[k] \in ExpressionKinds /\ Balance(ks, i + 1, k) >= 0
        /\ Balance(ks, i + 1, j - 1) = 0

\* C10: exp takes at most one comparison: no accepted tree has an exp node
\* with an exp node as its left or right child (a comparison in brackets is
\* a factor), every input with two comparison operators in one expression
\* is rejected, and so is `x := a < b < c`.
C10_NoChainedComparison ==
    \A t \in DOMAIN parse_call :
        Returned(t) =>
            /\ Ok(t) =>
                  \A node \in Nodes(Payload(t)) :
                      node.type = "exp" =>
                          node.left.type # "exp" /\ node.right.type # "exp"
            /\ HasChain(KindsOf(parse_call[t].arg)) => ~Ok(t)
            /\ parse_call[t].arg = ChainedComparison => ~Ok(t)

\* `x := a < b < c` was parsed: exp returned after `a < b` and the second
\* `<` was left
C10_Witness ==
    /\ Returned(1)
    /\ parse_call[1].arg = ChainedComparison
    /\ HasChain(KindsOf(ChainedComparison))
    /\ parser.current_token_index = 5

(***************************************************************************)
(* The lexemes of a source text, read off the text (positions from 1)      *)
(***************************************************************************)
Alnum == Letters \cup Digits
SymbolChars == {";", "<", "=", "+", "-", "*", "/", "(", ")"}

\* the first position of the run of letters and digits that holds i
RunStartOf(code, i) ==
    CHOOSE s \in 1..i :
        /\ \A k \in s..i : code[k] \in Alnum
        /\ s = 1 \/ code[s - 1] \notin Alnum

\* the last position of the longest run of class cls that starts at i
LastOfRun(code, i, cls) ==
    CHOOSE j \in i..Len(code) :
        /\ \A k \in i..j : code[k] \in cls
        /\ j = Len(code) \/ code[j + 1] \notin cls

\* a lexeme starts at i: a run of letters and digits starts, or the first
\* letter after the digits that lead a run, or `:=`, or a symbol that is
\* not the `=` of a `:=`
LexemeStart(code, i) ==
    \/ code[i] \in Alnum /\ (i = 1 \/ code[i - 1] \notin Alnum)
    \/ /\ code[i] \in Letters
       /\ i > 1
       /\ code[i - 1] \in Digits
       /\ \A k \in RunStartOf(code, i) .. i - 1 : code[k] \in Digits
    \/ code[i] = ":" /\ i < Len(code) /\ code[i + 1] = "="
    \/ /\ code[i] \in SymbolChars
       /\ ~(code[i] = "=" /\ i > 1 /\ code[i - 1] = ":")

LexemeEnd(code, i) ==
    IF code[i] \in Letters THEN LastOfRun(code, i, Alnum)
    ELSE IF code[i] \in Digits THEN LastOfRun(code, i, Digits)
    ELSE IF code[i] = ":" THEN i + 1
    ELSE i

\* the seven reserved words and the symbols, with their kinds
ReservedWords ==
    << <<"IF", <<"i","f">> >>, <<"THEN", <<"t","h","e","n">> >>,
       <<"END", <<"e","n","d">> >>, <<"REPEAT", <<"r","e","p","e","a","t">> >>,
       <<"UNTIL", <<"u","n","t","i","l">> >>, <<"READ", <<"r","e","a","d">> >>,
       <<"WRITE", <<"w","r","i","t","e">> >> >>
Symbols ==
    << <<"SEMICOLON", <<";">> >>, <<"ASSIGN", <<":","=">> >>,
       <<"LESSTHAN", <<"<">> >>, <<"EQUAL", <<"=">> >>, <<"PLUS", <<"+">> >>,
       <<"MINUS", <<"-">> >>, <<"MULT", <<"*">> >>, <<"DIV", <<"/">> >>,
       <<"OPENBRACKET", <<"(">> >>, <<"CLOSEDBRACKET", <<")">> >> >>

IsReserved(word) == \E n \in DOMAIN ReservedWords : ReservedWords[n][2] = word
KindIn(table, text) ==
    table[CHOOSE n \in DOMAIN table : table[n][2] = text][1]

\* the kind of a lexeme
KindOfLexeme(lexeme) ==
    IF lexeme[1] \in Letters
    THEN IF IsReserved(Lower(lexeme))
         THEN KindIn(ReservedWords, Lower(lexeme))
         ELSE "IDENTIFIER"
    ELSE IF lexeme[1] \in Digits THEN "NUMBER"
    ELSE KindIn(Symbols, lexeme)

\* the maximal-munch token sequence of a text
MaximalMunch(code) ==
    LET starts == SelectSeq([i \in 1..Len(code) |-> i],
                            LAMBDA i : LexemeStart(code, i))
        lexeme(n) == SubSeq(code, starts[n], LexemeEnd(code, starts[n]))
    IN  [n \in DOMAIN starts |-> Token(lexeme(n), KindOfLexeme(lexeme(n)))]

\* the positions (from 0) of the characters that start no token
BadPositions(code) ==
    {i - 1 : i \in {k \in 1..Len(code) :
        /\ ~IsSpace(code[k])
        /\ code[k] \notin Alnum
        /\ code[k] \notin SymbolChars
        /\ ~(code[k] = ":" /\ k < Len(code) /\ code[k + 1] = "=")}}

Min(S) == CHOOSE m \in S : \A n \in S : m <= n

(***************************************************************************)
(* Properties of Scanner.scan                                              *)
(***************************************************************************)
Scanned(t) == scan_call[t].pc = "returned"
ScanFailed(t) == scan_call[t].pc = "raised"
ScannedTokens(t) == heap[scan_call[t].ret]

\* C6: a text of recognised characters only never fails, and scan returns
\* its maximal-munch token sequence in source order; the sample text gives
\* the 15 tokens READ, IDENTIFIER(x), ..., WRITE, IDENTIFIER(x).
C6_MaximalMunch ==
    \A t \in DOMAIN scan_call :
        /\ ScanFailed(t) => BadPositions(scan_call[t].code) # {}
        /\ Scanned(t) =>
              /\ ScannedTokens(t) = MaximalMunch(scan_call[t].code)
              /\ scan_call[t].code = SampleCode =>
                    /\ Len(ScannedTokens(t)) = 15
                    /\ ScannedTokens(t) = SampleTokens

\* the sample text was scanned
C6_Witness ==
    /\ Scanned(1)
    /\ scan_call[1].code = SampleCode
    /\ Len(ScannedTokens(1)) = 15

\* the text with its whitespace removed
RECURSIVE Unspaced(_)
Unspaced(code) ==
    IF code = <<>> THEN <<>>
    ELSE IF IsSpace(Head(code)) THEN Unspaced(Tail(code))
    ELSE <<Head(code)>> \o Unspaced(Tail(code))

KeywordKinds == {"IF", "THEN", "END", "REPEAT", "UNTIL", "READ", "WRITE"}

\* C7: a lexeme of the identifier pattern has a keyword kind exactly when
\* its case-folded text is one of the seven reserved words (and then the
\* kind of that word), and IDENTIFIER otherwise; the lexemes are the source
\* text in its original case; "IF" and "If" both give kind IF with lexemes
\* "IF" and "If".
C7_KeywordsCaseInsensitive ==
    \A t \in DOMAIN scan_call :
        Scanned(t) =>
            LET toks == ScannedTokens(t)
            IN  /\ \A n \in DOMAIN toks :
                      toks[n].token_value[1] \in Letters =>
                          /\ toks[n].token_type \in KeywordKinds
                                <=> IsReserved(Lower(toks[n].token_value))
                          /\ IsReserved(Lower(toks[n].token_value)) =>
                                toks[n].token_type =
                                    KindIn(ReservedWords, Lower(toks[n].token_value))
                          /\ ~IsReserved(Lower(toks[n].token_value)) =>
                                toks[n].token_type = "IDENTIFIER"
                /\ Flatten([n \in DOMAIN toks |-> toks[n].token_value])
                        = Unspaced(scan_call[t].code)
                /\ scan_call[t].code = <<"I","F">> =>
                        toks = <<Token(<<"I","F">>, "IF")>>
                /\ scan_call[t].code = <<"I","f">> =>
                        toks = <<Token(<<"I","f">>, "IF")>>

\* "If" was scanned
C7_Witness ==
    /\ Scanned(1)
    /\ scan_call[1].code = <<"I","f">>
    /\ Len(ScannedTokens(1)) = 1

\* C8: a text with a character that starts no token makes scan fail at the
\* first such character: the scan never moves past it, the message gives
\* its index and the character, and nothing is returned; "x @ y" fails at
\* position 2.
C8_FailsAtFirstBadCharacter ==
    \A t \in DOMAIN scan_call :
        LET code == scan_call[t].code
            bad == BadPositions(code)
        IN  bad # {} =>
              /\ scan_call[t].position <= Min(bad)
              /\ ~Scanned(t)
              /\ scan_call[t].ret = NoRef
              /\ ScanFailed(t) =>
                    /\ scan_call[t].position = Min(bad)
                    /\ scan_call[t].exc =
                          Str(<<"Unrecognized token at position ", Min(bad),
                                ": '", code[Min(bad) + 1], "'">>)
              /\ (ScanFailed(t) /\ code = <<"x"," ","@"," ","y">>) =>
                    scan_call[t].exc.str[2] = 2

\* "x @ y" was scanned: `x` had been recognised when the scan failed at `@`
C8_Witness ==
    /\ ScanFailed(1)
    /\ scan_call[1].code = <<"x"," ","@"," ","y">>
    /\ heap[scanner.tokens] = <<Token(<<"x">>, "IDENTIFIER")>>

(***************************************************************************)
(* Further properties of Parser.parse                                      *)
(***************************************************************************)
\* the factor node of an operand token
Operand(token) == [type |-> "factor", value |-> token]

\* the level of an operator kind, "" for a kind that is no such operator
LevelOf(kind) ==
    CASE kind \in {"PLUS", "MINUS"} -> "simple_exp"
      [] kind \in {"MULT", "DIV"} -> "term"
      [] OTHER -> ""

\* the tree of `a op1 b op2 c`, read off the five tokens e[1..5]: operators
\* of one level group to the left, a multiplication binds before an
\* addition
ChainTree(e) ==
    LET l1 == LevelOf(e[2].token_type)
        l2 == LevelOf(e[4].token_type)
        a == Operand(e[1])
        b == Operand(e[3])
        c == Operand(e[5])
    IN  IF l1 = "simple_exp" /\ l2 = "term"
        THEN [type |-> l1, left |-> a, op |-> e[2],
              right |-> [type |-> l2, left |-> b, op |-> e[4], right |-> c]]
        ELSE [type |-> l2,
              left |-> [type |-> l1, left |-> a, op |-> e[2], right |-> b],
              op |-> e[4], right |-> c]

\* the input is a statement keyword or `x :=` followed by a op1 b op2 c
IsChain(e) ==
    /\ Len(e) = 5
    /\ \A i \in {1, 3, 5} : e[i].token_type \in {"IDENTIFIER", "NUMBER"}
    /\ \A i \in {2, 4} : LevelOf(e[i].token_type) # ""

\* C11: simple_exp and term build left-associative trees: `a op1 b op2 c`
\* with operators of one level gives op2 at the root, the node of a op1 b
\* as left child and c as right child; `a + b * c` gives a PLUS node whose
\* right child is the MULT node; in every accepted tree the right child of
\* a simple_exp node is a term or a factor and the right child of a term
\* node is a factor.
C11_LeftAssociative ==
    \A t \in DOMAIN parse_call :
        (Returned(t) /\ Ok(t)) =>
            LET tokens == parse_call[t].arg
                stmt == Payload(t).body.statements[1]
            IN  /\ \A node \in Nodes(Payload(t)) :
                      /\ node.type = "simple_exp" =>
                            /\ node.right.type \in {"term", "factor"}
                            /\ node.left.type \in {"simple_exp", "term", "factor"}
                      /\ node.type = "term" =>
                            /\ node.right.type = "factor"
                            /\ node.left.type \in {"term", "factor"}
                /\ (Len(tokens) = 7 /\ KindsOf(SubSeq(tokens, 1, 2))
                                            = <<"IDENTIFIER", "ASSIGN">>
                                   /\ IsChain(SubSeq(tokens, 3, 7))) =>
                        stmt.value = ChainTree(SubSeq(tokens, 3, 7))
                /\ (Len(tokens) = 6 /\ tokens[1].token_type = "WRITE"
                                   /\ IsChain(SubSeq(tokens, 2, 6))) =>
                        stmt.value = ChainTree(SubSeq(tokens, 2, 6))
                /\ tokens = AddChain =>
                        /\ stmt.value.op = K("PLUS")
                        /\ stmt.value.left.op = K("MINUS")
                        /\ stmt.value.right = Operand(Id("c"))
                /\ tokens = Arithmetic =>
                        /\ stmt.value.left.op = K("PLUS")
                        /\ stmt.value.left.right.op = K("MULT")
                        /\ stmt.value.left.right.type = "term"

\* `x := a - b + c` was parsed
C11_Witness ==
    /\ Returned(1)
    /\ Ok(1)
    /\ parse_call[1].arg = AddChain
    /\ IsChain(SubSeq(AddChain, 3, 7))

\* the token under the cursor of a parser, None past the end
UnderCursor(p) ==
    IF p.current_token_index < Len(p.tokens)
    THEN p.tokens[p.current_token_index + 1]
    ELSE None

\* some call is about to run the body of match()
InMatch == \E t \in DOMAIN parse_call : AtTop(t, "match", "57")

\* C15: throughout a parse call 0 <= current_token_index <= len(tokens)
\* and current_token is tokens[current_token_index], None when the index is
\* past the end; the index never decreases, changes only in match and only
\* by one, and the token list is set only when the call is entered (the
\* parser never goes back).
C15_CursorInvariants ==
    /\ [](/\ parser.current_token_index \in 0..Len(parser.tokens)
          /\ parser.current_token = UnderCursor(parser)
          /\ \A t \in DOMAIN parse_call :
                parse_call[t].pc # "call" => parser.tokens = parse_call[t].arg)
    /\ [][/\ parser'.current_token_index >= parser.current_token_index
          /\ parser'.current_token_index # parser.current_token_index =>
                /\ parser'.current_token_index = parser.current_token_index + 1
                /\ InMatch
          /\ parser'.current_token # parser.current_token =>
                \/ InMatch
                \/ \E t \in DOMAIN parse_call : parse_call[t].pc = "call"
          /\ parser'.tokens # parser.tokens =>
                \E t \in DOMAIN parse_call : parse_call[t].pc = "call"]_vars

\* a parse is under way with the cursor on the third of four tokens
C15_Witness ==
    /\ parse_call[1].pc = "running"
    /\ Len(parser.tokens) = 4
    /\ parser.current_token_index = 2
    /\ parser.current_token = parser.tokens[3]
    /\ InMatch

\* some call is about to run the body of statement()
Dispatching(t) == AtTop(t, "statement", "97")

\* the kind of the current token, "" when there is none
CurrentKind ==
    IF parser.current_token = None THEN "" ELSE parser.current_token.token_type

\* the kinds a statement begins with
DispatchKinds == {"IF", "REPEAT", "READ", "WRITE", "IDENTIFIER"}

\* statement() hands over to the production of the current kind
Dispatched(t) ==
    /\ parse_call'[t].pc = "running"
    /\ Len(parse_call'[t].stack) = Len(parse_call[t].stack) + 1
    /\ parse_call'[t].stack[Len(parse_call'[t].stack)].fn
            = StatementNode(CurrentKind)
    /\ parser' = parser

\* the call fails with the given message, nothing consumed
FailsWith(t, pieces) ==
    /\ parse_call'[t].pc = "returned"
    /\ parse_call'[t].ret = <<FALSE, [str |-> pieces]>>
    /\ parser' = parser

\* the call fails with a message that begins "Unexpected token", nothing
\* consumed
FailsUnexpectedToken(t) ==
    /\ parse_call'[t].pc = "returned"
    /\ parse_call'[t].ret[1] = FALSE
    /\ parse_call'[t].ret[2].str[1] = "Unexpected token: "
    /\ parser' = parser

\* C16: statement chooses its production from the kind of the current token
\* alone (IF, REPEAT, READ, WRITE, IDENTIFIER); with a current token of any
\* other kind it fails with "Unexpected token: <lexeme>, <kind>", and with
\* no current token (the empty token sequence too) it fails with
\* "Unexpected end of input"; in both cases nothing is consumed.
C16_StatementDispatch ==
    [][\A t \in DOMAIN parse_call :
        Dispatching(t) =>
            IF CurrentKind \in DispatchKinds
            THEN Dispatched(t)
            ELSE IF CurrentKind = ""
            THEN FailsWith(t, <<"Unexpected end of input">>)
            ELSE FailsWith(t, <<"Unexpected token: ",
                                parser.current_token.token_value, ", ",
                                CurrentKind>>)]_vars

\* C16 as claimed: with no current token, too, statement fails with an
\* "unexpected token" error
C16_NoTokenIsUnexpectedToken ==
    [][\A t \in DOMAIN parse_call :
        Dispatching(t) =>
            IF CurrentKind \in DispatchKinds
            THEN Dispatched(t)
            ELSE FailsUnexpectedToken(t)]_vars

\* statement() has refused the empty token sequence
C16_Witness ==
    /\ Returned(1)
    /\ ~Ok(1)
    /\ parse_call[1].arg = <<>>
    /\ Payload(1) = [str |-> <<"Unexpected end of input">>]
    /\ parser.current_token_index = 0

\* the number of frames of a function on the stack of a call
Frames(t, fn) ==
    Cardinality({i \in DOMAIN parse_call[t].stack : parse_call[t].stack[i].fn = fn})

\* the number of consumed tokens of the given kinds
Consumed(kinds) ==
    Count(KindsOf(parser.tokens), parser.current_token_index, kinds)

\* every call is over: it has returned or raised
AllOver ==
    /\ \A t \in DOMAIN scan_call : ScanOver(t)
    /\ \A t \in DOMAIN parse_call : ParseOver(t)

\* C17: scan and parse terminate on every finite input.  Every iteration
\* of the scan loop raises position by at least one and position stays
\* within the text.  In the parser a re-entry of stmt_sequence or exp, and
\* an iteration of the statement loop, comes only after a match has
\* consumed a token: the stmt_sequence frames number at most one more than
\* the THEN and REPEAT tokens consumed, the exp frames at most one more
\* than the opening brackets consumed, the statements gathered by a
\* stmt_sequence at most one more than the semicolons consumed, and the
\* stack is never deeper than 6 + 4 * (tokens consumed).  Every call
\* eventually returns a result or an error.
C17_Terminates ==
    /\ [][\A t \in DOMAIN scan_call :
            (scan_call[t].pc = "loop" /\ scan_call'[t].pc = "loop") =>
                scan_call'[t].position >= scan_call[t].position + 1]_vars
    /\ [](\A t \in DOMAIN scan_call :
            scan_call[t].position \in 0..Len(scan_call[t].code))
    /\ [](\A t \in DOMAIN parse_call :
            /\ Frames(t, "stmt_sequence") <= 1 + Consumed({"THEN", "REPEAT"})
            /\ Frames(t, "exp") <= 1 + Consumed({"OPENBRACKET"})
            /\ Len(parse_call[t].stack) <= 6 + 4 * parser.current_token_index
            /\ \A i \in DOMAIN parse_call[t].stack :
                    parse_call[t].stack[i].fn = "stmt_sequence" =>
                        Len(parse_call[t].stack[i].statements)
                            <= 1 + Consumed({"SEMICOLON"}))
    /\ <>AllOver

\* the parse of Nested is over, having re-entered stmt_sequence and exp
C17_Witness ==
    /\ Len(parse_call) = 1
    /\ parse_call[1].arg = Nested
    /\ AllOver
    /\ Ok(1)

(***************************************************************************)
(* Calls on a shared instance                                              *)
(***************************************************************************)
\* what parse returns for a token sequence of ConcTokens when no other call
\* runs
AloneResult(tokens) ==
    LET seq(statement) ==
            [type |-> "stmt_sequence", statements |-> <<statement>>]
        program(statement) == [type |-> "program", body |-> seq(statement)]
        read == [type |-> "read_stmt", identifier |-> Id("b")]
        assign == [type |-> "assign_stmt", identifier |-> Id("x"),
                   value |-> Operand(Num("1"))]
    IN  CASE tokens = IfRead ->
                <<TRUE, program([type |-> "if_stmt",
                                 condition |-> Operand(Id("a")),
                                 body |-> seq(read)])>>
          [] tokens = RepeatAssign ->
                <<TRUE, program([type |-> "repeat_stmt", body |-> seq(assign),
                                 condition |-> Operand(Num("0"))])>>
          [] tokens = WriteEnd ->
                <<FALSE, Str(<<"Unexpected token: ", K("END")>>)>>

\* a parse that runs alone returns AloneResult
AloneResults ==
    \A t \in DOMAIN parse_call :
        (Returned(t) /\ parse_call[t].arg \in ConcTokens) =>
            parse_call[t].ret = AloneResult(parse_call[t].arg)

\* the outcome of a scan is the one the text has when scanned alone: its
\* maximal-munch tokens, or the error at its first bad character
ScansAsAlone(t) ==
    LET code == scan_call[t].code
        bad == BadPositions(code)
    IN  /\ Scanned(t) =>
            /\ bad = {}
            /\ ScannedTokens(t) = MaximalMunch(code)
        /\ ScanFailed(t) =>
            /\ bad # {}
            /\ scan_call[t].exc =
                 Str(<<"Unrecognized token at position ", Min(bad), ": '",
                       code[Min(bad) + 1], "'">>)

\* C12: one Scanner or Parser serves concurrent calls: under every
\* interleaving of two scan calls or of two parse calls on the same
\* instance, each call returns what it returns when it runs alone.
C12_ConcurrentCallsAsAlone ==
    /\ \A t \in DOMAIN scan_call : ScansAsAlone(t)
    /\ \A t \in DOMAIN parse_call :
          Returned(t) => parse_call[t].ret = AloneResult(parse_call[t].arg)

\* C13: calls made one after the other on one instance are independent of
\* history: a scan after earlier scans (successful or failed) returns what
\* the first scan of the same text returned on the fresh Scanner, which is
\* the outcome of the text alone; a token sequence once returned stays as
\* it was returned while later scans run; a parse after earlier parses
\* returns what the first parse of the same tokens returned on the fresh
\* Parser.
C13_SequentialCallsIndependent ==
    /\ \A t \in DOMAIN scan_call :
          /\ ScansAsAlone(t)
          /\ (ScanOver(t) /\ ScanOver(1)
                /\ scan_call[t].code = scan_call[1].code) =>
                /\ scan_call[t].pc = scan_call[1].pc
                /\ scan_call[t].exc = scan_call[1].exc
                /\ Scanned(t) => ScannedTokens(t) = ScannedTokens(1)
    /\ \A t \in DOMAIN parse_call :
          (ParseOver(t) /\ ParseOver(1)
            /\ parse_call[t].arg = parse_call[1].arg) =>
                parse_call[t].ret = parse_call[1].ret

\* `x:=1 ` was scanned again after a scan that failed
C13_Witness ==
    /\ Len(scan_call) = 3
    /\ scan_call[1].code = <<"x", ":", "=", "1", " ">>
    /\ Scanned(1)
    /\ ScanFailed(2)
    /\ Scanned(3)
    /\ Len(ScannedTokens(3)) = 3
    /\ scan_call[3].ret # scan_call[1].ret

(***************************************************************************)
(* The token file                                                          *)
(***************************************************************************)
\* C14: for every text that scans, the tokens written by
\* save_tokens_to_file and read back as parse_file reads them equal the
\* scanned tokens, and parsing the tokens read back gives the outcome and
\* the tree of parsing the scanned tokens.
C14_SaveLoadRoundTrip ==
    /\ file # NoFile =>
          /\ LoadTokens(file.text).exc = None
          /\ LoadTokens(file.text).tokens = ScannedTokens(1)
    /\ Len(parse_call) = 2 =>
          /\ parse_call[2].pc # "raised"
          /\ parse_call[2].arg = ScannedTokens(1)
          /\ parse_call[2].arg = parse_call[1].arg
          /\ Returned(2) => parse_call[2].ret = parse_call[1].ret

\* the tokens of the sample text were written, read back and parsed
C14_Witness ==
    /\ Len(parse_call) = 2
    /\ scan_call[1].code = SampleCode
    /\ Len(parse_call[2].arg) = 15
    /\ Returned(2)
    /\ Ok(2)

(***************************************************************************)
(* The graph of the visualizer                                             *)
(***************************************************************************)
\* the nodes of a tree, each before its children, children in table order
RECURSIVE Preorder(_)
Preorder(node) ==
    <<node>> \o Flatten([i \in DOMAIN Children(node) |->
                            Preorder(Children(node)[i])])

\* the (parent, child) pairs of a tree whose root is the k-th node in
\* Preorder, as pairs of Preorder positions
RECURSIVE TreeEdges(_, _)
TreeEdges(node, k) ==
    LET kids == Children(node)
        at(i) == k + 1 + Len(Flatten([j \in 1..(i - 1) |-> Preorder(kids[j])]))
    IN  UNION {{<<k, at(i)>>} \cup TreeEdges(kids[i], at(i)) : i \in DOMAIN kids}

\* C18: _build_graph walks the whole tree in the child order of the data
\* model: one graph node per tree node, numbered in visiting order (a node
\* before its children, an if_stmt's condition before its body, a
\* repeat_stmt's body before its condition, the nested expression of a
\* bracketed factor included), and one edge to each node from its parent.
C18_GraphMirrorsTree ==
    visualizer.graph # None =>
        LET order == Preorder(Payload(1))
            id(k) == [str |-> <<"node_", k - 1>>]
        IN  /\ visualizer.node_count = Len(order)
            /\ visualizer.graph.nodes = {id(k) : k \in DOMAIN order}
            /\ DOMAIN visualizer.node_labels = visualizer.graph.nodes
            /\ \A k \in DOMAIN order :
                  visualizer.node_labels[id(k)] = CreateNodeLabel(order[k])
            /\ visualizer.graph.edges =
                  {<<id(e[1]), id(e[2])>> : e \in TreeEdges(Payload(1), 1)}

\* the same for the trees that hold no bracketed factor
C18_GraphMirrorsUnbracketed ==
    (\A i \in DOMAIN parse_call[1].arg :
        parse_call[1].arg[i].token_type # "OPENBRACKET") =>
            C18_GraphMirrorsTree

====
